---- MODULE Spec2Model ----
(***************************************************************************)
(* etxd: a daemon measuring the Expected Transmission Count (ETX).         *)
(*                                                                         *)
(* The module models the per-interface statistics store (etx_data.py), the *)
(* probe protocol (etx_probe.py) and the interface lifecycle scan with its *)
(* timers (etxd.py).  The program is Python 2 running on the Twisted       *)
(* reactor: one thread, every callback runs to completion, an exception    *)
(* that leaves a callback is logged by the reactor and the loop goes on.   *)
(***************************************************************************)
EXTENDS Integers, Sequences, FiniteSets, TLC

(***************************************************************************)
(* Bounds of the model.                                                    *)
(***************************************************************************)
MaxTime == 3      \* the clock of the store specification runs over 0..MaxTime
MaxProbes == 2    \* datagrams received in one run of the store specification
MaxClock == 1     \* the clock of the daemon specification runs over 0..MaxClock
MaxScans == 3     \* lifecycle scans in one run of the daemon specification
MaxRx == 1        \* datagrams received in one run of the daemon specification
MaxTimers == 2    \* pending send_probe callbacks per interface
MaxExchange == 3  \* probes delivered in one run of the two-node specification
MaxOption == 4    \* largest number given with -i or -w
MaxSetups == 1    \* lifecycle scans in one run of the configuration specification

\* The configurations <<WINDOW, INTERVAL, DEBUG of the protocol>> the option
\* parser can hand over (positive integers; the diagnostics of the protocol
\* are on when -D is given twice), and the counts a received two-hop table
\* can carry (any integer a peer cares to pickle).
DaemonConfigs == {<<1, 1, FALSE>>, <<1, 2, FALSE>>}
StoreConfigs == {<<1, 1, FALSE>>, <<2, 1, FALSE>>, <<1, 1, TRUE>>}
ReportedCounts == {-1, 1, 2}

(***************************************************************************)
(* The universe: configured interface names in the iteration order of the  *)
(* interfaces dictionary, addresses, MAC addresses.                        *)
(***************************************************************************)
IfOrder == <<"wlan0", "wlan1">>
IfNames == {IfOrder[k] : k \in 1..Len(IfOrder)}
LocalIp == {"ip1", "ip2"}
Ip == {"ip1", "ip2", "ip3"}
Bcast == {"b1", "b2"}
Mac == {"m1", "m2"}
Attrs == {"port", "ipc_port", "protocol", "data"}

VARIABLES
    WINDOW,        \* EtxData.WINDOW / WINDOW of etxd.py
    INTERVAL,      \* EtxData.INTERVAL / INTERVAL of etxd.py
    PROBE_DEBUG,   \* EtxProbeProtocol.DEBUG
    pc,            \* "configured", "running" or "exited"
    interfaces,    \* the interfaces dictionary: name -> Interface object
    scanTimer,     \* a call of initialize_interfaces is scheduled
    sendTimers,    \* per interface: pending send_probe callbacks
    now,           \* time.time()
    budget,        \* what is left of MaxScans and MaxRx
    last           \* the callback that ran last, with its arguments and outcome

vars == <<WINDOW, INTERVAL, PROBE_DEBUG, pc, interfaces, scanTimer, sendTimers,
          now, budget, last>>

(***************************************************************************)
(* Python dictionaries are functions with a finite domain.                 *)
(***************************************************************************)
EmptyDict == [k \in {} |-> 0]

DictSet(d, k, v) == [x \in DOMAIN d \cup {k} |-> IF x = k THEN v ELSE d[x]]

(***************************************************************************)
(* What pickle.loads can hand to datagramReceived.  A payload either fails *)
(* to unpack into a pair (pair = FALSE: loads raises, or the value is not  *)
(* a 2-sequence) or is a pair (mac, data); data is a mapping               *)
(* address -> (count, count) (dict = TRUE) or any other object.            *)
(***************************************************************************)
NotADict == [dict |-> FALSE, d |-> EmptyDict]

Tables(keys, firsts, seconds) ==
    {[dict |-> TRUE, d |-> f] :
        f \in UNION {[K -> firsts \X seconds] : K \in SUBSET keys}}

Payloads(macs, tables) ==
    {[pair |-> TRUE, mac |-> m, data |-> t] : m \in macs, t \in tables \cup {NotADict}}
    \cup {[pair |-> FALSE, mac |-> "", data |-> NotADict]}

(***************************************************************************)
(* EtxData                                                                 *)
(***************************************************************************)
EtxData(ip_address) ==
    [ip_address |-> ip_address,
     mac |-> EmptyDict,     \* _mac_addresses
     np |-> EmptyDict,      \* _neighbor_probes
     rp |-> EmptyDict]      \* _received_probes

\* Line 90 as an update of the table already held for the neighbor.
set_neighbor_info_merge(st, neighbor, data) ==
    LET held == IF neighbor \in DOMAIN st.np THEN st.np[neighbor].d ELSE EmptyDict
    IN  [st EXCEPT !.np = DictSet(@, neighbor,
            [dict |-> data.dict,
             d |-> [k \in DOMAIN held \cup DOMAIN data.d |->
                       IF k \in DOMAIN data.d THEN data.d[k] ELSE held[k]]])]

set_neighbor_info(st, neighbor, data) ==
    [st EXCEPT !.np = DictSet(st.np, neighbor, data)]

\* add_timestamp putting the new timestamp in front of the list.
add_timestamp_front(st, neighbor, timestamp) ==
    LET have == IF neighbor \in DOMAIN st.rp THEN st.rp[neighbor] ELSE <<>>
    IN  [st EXCEPT !.rp = DictSet(st.rp, neighbor, <<timestamp>> \o have)]

add_timestamp(st, neighbor, timestamp) ==
    LET have == IF neighbor \in DOMAIN st.rp THEN st.rp[neighbor] ELSE <<>>
    IN  [st EXCEPT !.rp = DictSet(st.rp, neighbor, Append(have, timestamp))]

set_mac(st, ip, mac) ==
    [st EXCEPT !.mac = DictSet(st.mac, ip, mac)]

\* get_mac returns None for an unknown address; None is modelled as "".
get_mac(st, ip) ==
    IF ip \in DOMAIN st.mac THEN st.mac[ip] ELSE ""

\* The loop with the comparison of line 122 weakened to <=.
RECURSIVE DropOldInclusive(_, _)
DropOldInclusive(s, timestamp) ==
    IF Len(s) > 0 /\ s[1] + WINDOW <= timestamp
    THEN DropOldInclusive(Tail(s), timestamp)
    ELSE s

\* The loop of line 122 as a single test: one timestamp is dropped per call.
DropOldOnce(s, timestamp) ==
    IF Len(s) > 0 /\ s[1] + WINDOW < timestamp THEN Tail(s) ELSE s

\* The while loop of remove_old_probes on one neighbor's list.
RECURSIVE DropOld(_, _)
DropOld(s, timestamp) ==
    IF Len(s) > 0 /\ s[1] + WINDOW < timestamp
    THEN DropOld(Tail(s), timestamp)
    ELSE s

\* Lines 126-129 without line 129: the empty list of timestamps is kept.
DropEmptyTableOnly(st, trimmed) ==
    LET gone == {n \in DOMAIN trimmed : Len(trimmed[n]) = 0 /\ n \in DOMAIN st.np}
    IN  [st EXCEPT !.rp = trimmed,
                   !.np = [n \in DOMAIN st.np \ gone |-> st.np[n]]]

\* DropEmpty deleting the MAC entry of the neighbor as well.
DropEmptyWithMac(st, trimmed) ==
    LET gone == {n \in DOMAIN trimmed : Len(trimmed[n]) = 0 /\ n \in DOMAIN st.np}
    IN  [st EXCEPT !.rp = [n \in DOMAIN trimmed \ gone |-> trimmed[n]],
                   !.np = [n \in DOMAIN st.np \ gone |-> st.np[n]],
                   !.mac = [n \in DOMAIN st.mac \ gone |-> st.mac[n]]]

\* Lines 126-129: a neighbor whose list is empty and who has a table loses both.
DropEmpty(st, trimmed) ==
    LET gone == {n \in DOMAIN trimmed : Len(trimmed[n]) = 0 /\ n \in DOMAIN st.np}
    IN  [st EXCEPT !.rp = [n \in DOMAIN trimmed \ gone |-> trimmed[n]],
                   !.np = [n \in DOMAIN st.np \ gone |-> st.np[n]]]

remove_old_probes(st, timestamp) ==
    DropEmpty(st, [n \in DOMAIN st.rp |-> DropOld(st.rp[n], timestamp)])

\* Python 2: the quotient of two ints truncates.
\* _get_num_exp_probes rounding the quotient to the nearest integer.
_get_num_exp_probes_rounded == (2 * WINDOW + INTERVAL) \div (2 * INTERVAL)

_get_num_exp_probes == WINDOW \div INTERVAL

\* _get_num_probes_recv_from_me calls .keys() on the stored table: an
\* AttributeError when the stored object is no mapping.
Raises_recv_from_me(st, neighbor) ==
    neighbor \in DOMAIN st.np /\ ~st.np[neighbor].dict

\* Lines 240-244 counting one probe for a neighbor that reported none.
recv_from_me_or_one(st, neighbor) ==
    IF neighbor \notin DOMAIN st.np \/ st.ip_address \notin DOMAIN st.np[neighbor].d
    THEN 1
    ELSE st.np[neighbor].d[st.ip_address][1]

_get_num_probes_recv_from_me(st, neighbor) ==
    IF neighbor \notin DOMAIN st.np \/ st.ip_address \notin DOMAIN st.np[neighbor].d
    THEN 0
    ELSE st.np[neighbor].d[st.ip_address][1]

_get_num_probes_recv_from_neighbor(st, neighbor) ==
    IF neighbor \notin DOMAIN st.rp THEN 0 ELSE Len(st.rp[neighbor])

(***************************************************************************)
(* Python floats are modelled as fractions <<numerator, denominator>> with *)
(* a positive denominator; the integer -1 is <<-1, 1>>.                    *)
(***************************************************************************)
RatLt(a, b) == a[1] * b[2] < b[1] * a[2]
RatLe(a, b) == a[1] * b[2] <= b[1] * a[2]
RatEq(a, b) == a[1] * b[2] = b[1] * a[2]
RatMul(a, b) == <<a[1] * b[1], a[2] * b[2]>>
RatInv(a) == IF a[1] > 0 THEN <<a[2], a[1]>> ELSE <<-a[2], -a[1]>>
Zero == <<0, 1>>
One == <<1, 1>>
MinusOne == <<-1, 1>>

_get_forward_ratio(st, neighbor) ==
    LET df == <<_get_num_probes_recv_from_me(st, neighbor), _get_num_exp_probes>>
    IN  IF RatLt(One, df) THEN One ELSE df

_get_reverse_ratio(st, neighbor) ==
    LET dr == <<_get_num_probes_recv_from_neighbor(st, neighbor), _get_num_exp_probes>>
    IN  IF RatLt(One, dr) THEN One ELSE dr

get_transmission_probability(st, neighbor) ==
    RatMul(_get_forward_ratio(st, neighbor), _get_reverse_ratio(st, neighbor))

get_etx(st, neighbor) ==
    LET p == get_transmission_probability(st, neighbor)
    IN  IF RatEq(p, Zero) THEN MinusOne ELSE RatInv(p)

get_neighbors(st, etx) ==
    LET keep == {n \in DOMAIN st.rp :
                    IF etx THEN RatLt(Zero, get_etx(st, n))
                           ELSE RatLt(Zero, get_transmission_probability(st, n))}
    IN  [n \in keep |-> IF etx THEN get_etx(st, n)
                               ELSE get_transmission_probability(st, n)]

\* get_probe_data and get_neighbors read every neighbor of _received_probes.
Raises_read(st) == \E n \in DOMAIN st.rp : Raises_recv_from_me(st, n)

\* get_probe_data with the two counts of every pair exchanged.
get_probe_data_swapped(st) ==
    [n \in DOMAIN st.rp |-> <<_get_num_probes_recv_from_me(st, n),
                              _get_num_probes_recv_from_neighbor(st, n)>>]

get_probe_data(st) ==
    [n \in DOMAIN st.rp |-> <<_get_num_probes_recv_from_neighbor(st, n),
                              _get_num_probes_recv_from_me(st, n)>>]

(***************************************************************************)
(* Interface objects.  An attribute that is not set is absent from attrs   *)
(* and its field holds a fixed default.  The protocol object of an         *)
(* interface holds own_ip and a reference to the interface's data object:  *)
(* the two attributes are always set together.                             *)
(***************************************************************************)
Interface ==
    [attrs |-> {}, port |-> "", ipc_port |-> "", own_ip |-> "", data |-> EtxData("")]

hasattr(ifc, a) == a \in ifc.attrs

delattr(ifc, a) ==
    [ifc EXCEPT !.attrs = @ \ {a},
                !.port = IF a = "port" THEN "" ELSE @,
                !.ipc_port = IF a = "ipc_port" THEN "" ELSE @,
                !.own_ip = IF a = "protocol" THEN "" ELSE @,
                !.data = IF a = "data" THEN EtxData("") ELSE @]

NoTimers == [fresh |-> 0, stale |-> 0]

(***************************************************************************)
(* EtxProbeProtocol                                                        *)
(***************************************************************************)
\* Lines 72-76 of datagramReceived.
RecordProbe(st, addr, payload, time) ==
    add_timestamp(set_neighbor_info(set_mac(st, addr, payload.mac), addr, payload.data),
                  addr, time)

\* Lines 77-80: the diagnostic path evicts and formats the sender's ratios.
DebugInfo(ifc, addr, st) ==
    [ifc |-> [ifc EXCEPT !.data = st], raised |-> Raises_recv_from_me(st, addr)]

\* datagramReceived without the test of line 68.
datagramReceived_unfiltered(ifc, addr, payload, time) ==
    IF ~payload.pair THEN [ifc |-> ifc, raised |-> TRUE]
    ELSE IF PROBE_DEBUG
    THEN DebugInfo(ifc, addr,
                   remove_old_probes(RecordProbe(ifc.data, addr, payload, time), time))
    ELSE [ifc |-> [ifc EXCEPT !.data = RecordProbe(@, addr, payload, time)],
          raised |-> FALSE]

\* datagramReceived: the interface after the call, and whether it raised.
datagramReceived(ifc, addr, payload, time) ==
    IF addr = ifc.own_ip THEN [ifc |-> ifc, raised |-> FALSE]
    ELSE IF ~payload.pair THEN [ifc |-> ifc, raised |-> TRUE]
    ELSE IF PROBE_DEBUG
    THEN DebugInfo(ifc, addr,
                   remove_old_probes(RecordProbe(ifc.data, addr, payload, time), time))
    ELSE [ifc |-> [ifc EXCEPT !.data = RecordProbe(@, addr, payload, time)],
          raised |-> FALSE]

\* Lines 95-100 of send_probe, on the evicted store st: the payload cannot be
\* built when a stored table is no mapping, and a protocol whose port was
\* closed has no transport to write to.
Broadcast(ifc, st) ==
    LET bad == (\E n \in DOMAIN st.rp : Raises_recv_from_me(st, n)) \/ ~hasattr(ifc, "port")
    IN  [ifc |-> [ifc EXCEPT !.data = st],
         raised |-> bad,
         datagram |-> IF bad THEN EmptyDict ELSE get_probe_data(st)]

\* send_probe of the protocol without line 94.
protocol_send_probe_unevicted(ifc, time) ==
    Broadcast(ifc, ifc.data)

\* send_probe of the protocol.
protocol_send_probe(ifc, time) ==
    Broadcast(ifc, remove_old_probes(ifc.data, time))

(***************************************************************************)
(* etxd.py                                                                 *)
(***************************************************************************)
\* Lines 97-99 of send_probe(interface), reached when the protocol's
\* send_probe returned r without raising: the callback schedules itself.
Rearm(tm, r) ==
    [ifc |-> r.ifc,
     tm |-> IF r.raised THEN tm ELSE [tm EXCEPT !.fresh = @ + 1],
     sent |-> ~r.raised,
     raised |-> r.raised,
     datagram |-> r.datagram]

\* send_probe(interface): the interface and its timers after the callback.
send_probe(ifc, tm, time) ==
    IF ~hasattr(ifc, "protocol")
    THEN [ifc |-> ifc, tm |-> tm, sent |-> FALSE, raised |-> FALSE, datagram |-> EmptyDict]
    ELSE Rearm(tm, protocol_send_probe(ifc, time))

\* Lines 113-123 and 141-149: stop listening and delete the four attributes.
\* An interface whose companion listener could not be bound has no ipc_port.
TearDown(ifc) ==
    IF ~hasattr(ifc, "ipc_port")
    THEN [ifc |-> delattr(ifc, "port"), raised |-> TRUE]
    ELSE [ifc |-> delattr(delattr(delattr(delattr(ifc, "port"), "ipc_port"),
                                  "protocol"), "data"),
          raised |-> FALSE]

\* What one scan observes of one interface: whether ifconfig lists it, whether
\* it has an AF_INET entry, its addresses, and whether its local address is
\* free for listenTCP (main() listens on the query port at 127.0.0.1 and at
\* the address of eth0).
Observations ==
    {[present |-> FALSE, addr |-> FALSE, inet |-> "", bcast |-> "", tcp |-> FALSE],
     [present |-> TRUE, addr |-> FALSE, inet |-> "", bcast |-> "", tcp |-> FALSE]}
    \cup {[present |-> TRUE, addr |-> TRUE, inet |-> a, bcast |-> b, tcp |-> t] :
            a \in LocalIp, b \in Bcast, t \in BOOLEAN}

\* listenUDP succeeds: no other interface of the dictionary listens at the
\* broadcast address.
UdpFree(ifs, name, o) ==
    \A j \in IfNames \ {name} : ~(hasattr(ifs[j], "port") /\ ifs[j].port = o.bcast)

\* listenTCP succeeds likewise at the local address.
TcpFree(ifs, name, o) ==
    o.tcp /\ \A j \in IfNames \ {name} :
                ~(hasattr(ifs[j], "ipc_port") /\ ifs[j].ipc_port = o.inet)

\* Line 161 listening at the local address of the interface.
BoundAtLocal(ifc, o) ==
    [ifc EXCEPT !.attrs = @ \cup {"port"}, !.port = o.inet]

\* Lines 156-161: a new store and protocol, and the port once listenUDP succeeded.
Created(ifc, o) ==
    [ifc EXCEPT !.attrs = @ \cup {"data", "protocol"},
                !.data = EtxData(o.inet), !.own_ip = o.inet]

Bound(ifc, o) ==
    [ifc EXCEPT !.attrs = @ \cup {"port"}, !.port = o.bcast]

\* Lines 169-174: s is the outcome of the first send_probe, which the running
\* reactor calls at once; then the companion listener is bound.
Listen(tcpFree, o, s) ==
    [ifc |-> IF tcpFree /\ ~s.raised
             THEN [s.ifc EXCEPT !.attrs = @ \cup {"ipc_port"}, !.ipc_port = o.inet]
             ELSE s.ifc,
     tm |-> s.tm, raised |-> s.raised, act |-> "ok"]

\* Lines 156-174 without the deletions of lines 165-166.
ActivateKeeping(ifs, name, tm, o, time) ==
    IF ~UdpFree(ifs, name, o)
    THEN [ifc |-> Created(ifs[name], o), tm |-> tm, raised |-> FALSE,
          act |-> "bind_failed"]
    ELSE Listen(TcpFree(ifs, name, o), o,
                send_probe(Bound(Created(ifs[name], o), o), tm, time))

\* Lines 156-174 for interface name.
Activate(ifs, name, tm, o, time) ==
    IF ~UdpFree(ifs, name, o)
    THEN [ifc |-> delattr(delattr(Created(ifs[name], o), "data"), "protocol"),
          tm |-> tm, raised |-> FALSE, act |-> "bind_failed"]
    ELSE Listen(TcpFree(ifs, name, o), o,
                send_probe(Bound(Created(ifs[name], o), o), tm, time))

\* What a scan did with one interface, for the record of the scan.
Event(ifc, o, torn, act) ==
    [seen |-> IF ~o.present THEN "absent" ELSE IF ~o.addr THEN "noaddr" ELSE "addr",
     had_port |-> hasattr(ifc, "port"),
     had_probes |-> DOMAIN ifc.data.rp # {},
     inet |-> o.inet, bcast |-> o.bcast,
     torn |-> torn, act |-> act,
     old |-> IF torn THEN ifc ELSE Interface]

NotReached ==
    [seen |-> "skipped", had_port |-> FALSE, had_probes |-> FALSE,
     inet |-> "", bcast |-> "", torn |-> FALSE, act |-> "none", old |-> Interface]

\* The callbacks armed before a teardown.
Stale(tm) == [fresh |-> 0, stale |-> tm.fresh + tm.stale]

Kept(ifc, tm, o) ==
    [ifc |-> ifc, tm |-> tm, raised |-> FALSE, ev |-> Event(ifc, o, FALSE, "none")]

Torn(ifc, tm, o, td) ==
    [ifc |-> td.ifc, tm |-> Stale(tm), raised |-> td.raised,
     ev |-> Event(ifc, o, TRUE, "none")]

Activated(ifc, o, torn, r) ==
    [ifc |-> r.ifc, tm |-> r.tm, raised |-> r.raised, ev |-> Event(ifc, o, torn, r.act)]

\* Lines 137-158 as a rebinding of the probe port that keeps the store.
ReconfigureRebind(ifs, name, tm, o, time, td) ==
    IF td.raised
    THEN Torn(ifs[name], tm, o, td)
    ELSE [ifc |-> [ifs[name] EXCEPT !.port = o.bcast], tm |-> tm, raised |-> FALSE,
          ev |-> Event(ifs[name], o, TRUE, "ok")]

\* Lines 137-158: the broadcast address changed; td is the outcome of the teardown.
Reconfigure(ifs, name, tm, o, time, td) ==
    IF td.raised
    THEN Torn(ifs[name], tm, o, td)
    ELSE Activated(ifs[name], o, TRUE,
                   Activate([ifs EXCEPT ![name] = td.ifc], name, Stale(tm), o, time))

\* One iteration of the loop without the continue of lines 150-153: a
\* listening interface that is seen with an address is set up anew.
ScanInterfaceAnew(ifs, name, tm, o, time) ==
    IF ~o.present
    THEN IF hasattr(ifs[name], "port")
         THEN Torn(ifs[name], tm, o, TearDown(ifs[name]))
         ELSE Kept(ifs[name], tm, o)
    ELSE IF ~o.addr
    THEN Kept(ifs[name], tm, o)
    ELSE IF hasattr(ifs[name], "port")
    THEN Reconfigure(ifs, name, tm, o, time, TearDown(ifs[name]))
    ELSE Activated(ifs[name], o, FALSE, Activate(ifs, name, tm, o, time))

\* One iteration of the loop of initialize_interfaces.
ScanInterface(ifs, name, tm, o, time) ==
    IF ~o.present
    THEN IF hasattr(ifs[name], "port")
         THEN Torn(ifs[name], tm, o, TearDown(ifs[name]))
         ELSE Kept(ifs[name], tm, o)
    ELSE IF ~o.addr \/ (hasattr(ifs[name], "port") /\ ifs[name].port = o.bcast)
    THEN Kept(ifs[name], tm, o)
    ELSE IF hasattr(ifs[name], "port")
    THEN Reconfigure(ifs, name, tm, o, time, TearDown(ifs[name]))
    ELSE Activated(ifs[name], o, FALSE, Activate(ifs, name, tm, o, time))

\* The state of the loop after an iteration with outcome r.
Iterated(acc, name, r) ==
    [ifs |-> [acc.ifs EXCEPT ![name] = r.ifc],
     tms |-> [acc.tms EXCEPT ![name] = r.tm],
     raised |-> r.raised,
     ev |-> [acc.ev EXCEPT ![name] = r.ev]]

\* The loop of initialize_interfaces from the k-th interface on; an exception
\* ends the loop and the callback.
RECURSIVE ScanFrom(_, _, _, _)
ScanFrom(k, acc, obs, time) ==
    IF k > Len(IfOrder) \/ acc.raised THEN acc
    ELSE ScanFrom(k + 1,
                  Iterated(acc, IfOrder[k],
                           ScanInterface(acc.ifs, IfOrder[k], acc.tms[IfOrder[k]],
                                         obs[IfOrder[k]], time)),
                  obs, time)

(***************************************************************************)
(* The callbacks of the reactor.                                           *)
(***************************************************************************)
\* Startup without the check of lines 267-269.
StartupUnchecked ==
    /\ pc = "configured"
    /\ pc' = "running" /\ scanTimer' = TRUE
    /\ last' = [op |-> "startup", then |-> "main"]
    /\ UNCHANGED <<WINDOW, INTERVAL, PROBE_DEBUG, interfaces, sendTimers, now, budget>>

\* __main__ lines 266-273 and main(): the configuration check, then main()
\* opens the listeners of the query servers and hands the first scan to the
\* reactor.  "exited" is the process after sys.exit(1).
Startup ==
    /\ pc = "configured"
    /\ IF WINDOW < INTERVAL
       THEN pc' = "exited" /\ scanTimer' = FALSE
       ELSE pc' = "running" /\ scanTimer' = TRUE
    /\ last' = [op |-> "startup",
                then |-> IF WINDOW < INTERVAL THEN "sys.exit(1)" ELSE "main"]
    /\ UNCHANGED <<WINDOW, INTERVAL, PROBE_DEBUG, interfaces, sendTimers, now, budget>>

\* The end of initialize_interfaces: line 176 is reached unless the loop raised.
Scanned(r) ==
    /\ \A n \in IfNames : r.tms[n].fresh + r.tms[n].stale <= MaxTimers
    /\ interfaces' = r.ifs
    /\ sendTimers' = r.tms
    /\ scanTimer' = ~r.raised
    /\ last' = [op |-> "scan", raised |-> r.raised, ev |-> r.ev]

initialize_interfaces ==
    /\ pc = "running" /\ scanTimer /\ budget.scans > 0
    /\ \E obs \in [IfNames -> Observations] :
         Scanned(ScanFrom(1, [ifs |-> interfaces, tms |-> sendTimers, raised |-> FALSE,
                              ev |-> [n \in IfNames |-> NotReached]], obs, now))
    /\ budget' = [budget EXCEPT !.scans = @ - 1]
    /\ UNCHANGED <<WINDOW, INTERVAL, PROBE_DEBUG, pc, now>>

Sent(name, stale, r) ==
    /\ interfaces' = [interfaces EXCEPT ![name] = r.ifc]
    /\ sendTimers' = [sendTimers EXCEPT ![name] = r.tm]
    /\ last' = [op |-> "send_probe", name |-> name, stale |-> stale,
                sent |-> r.sent, raised |-> r.raised, datagram |-> r.datagram,
                time |-> now]

\* A pending send_probe callback of interface name fires; stale tells whether
\* it was armed before the last teardown of the interface.
SendTimerFires(name, stale) ==
    /\ pc = "running"
    /\ IF stale THEN sendTimers[name].stale > 0 ELSE sendTimers[name].fresh > 0
    /\ Sent(name, stale,
            send_probe(interfaces[name],
                       IF stale THEN [sendTimers[name] EXCEPT !.stale = @ - 1]
                                ELSE [sendTimers[name] EXCEPT !.fresh = @ - 1],
                       now))
    /\ UNCHANGED <<WINDOW, INTERVAL, PROBE_DEBUG, pc, scanTimer, now, budget>>

Received(name, addr, payload, r) ==
    /\ interfaces' = [interfaces EXCEPT ![name] = r.ifc]
    /\ last' = [op |-> "datagramReceived", name |-> name, addr |-> addr,
                payload |-> payload, raised |-> r.raised, time |-> now]

\* A datagram from addr arrives on the probe port of interface name.
DatagramArrives(name, senders, payloads) ==
    /\ pc = "running"
    /\ hasattr(interfaces[name], "port") /\ hasattr(interfaces[name], "protocol")
    /\ budget.rx > 0
    /\ \E addr \in senders, payload \in payloads :
         Received(name, addr, payload,
                  datagramReceived(interfaces[name], addr, payload, now))
    /\ budget' = [budget EXCEPT !.rx = @ - 1]
    /\ UNCHANGED <<WINDOW, INTERVAL, PROBE_DEBUG, pc, scanTimer, sendTimers, now>>

\* A completed teardown (lines 115-123, 141-149) deletes the references of
\* the interface to its protocol and store; the closed port still refers to
\* the protocol and the protocol to the store it was constructed with (line
\* 51).  The record of the scan keeps that pair for the interface as old.
Orphaned(name) ==
    /\ last.op = "scan"
    /\ last.ev[name].torn
    /\ ~hasattr(interfaces[name], "protocol") \/ last.ev[name].act # "none"

\* Late with the old protocol writing into whatever store the interface
\* has now.
LateIntoLive(ifs, name, old, addr, payload, time) ==
    [ifs |-> IF hasattr(ifs[name], "data")
             THEN [ifs EXCEPT ![name].data =
                      datagramReceived([old EXCEPT !.data = ifs[name].data],
                                       addr, payload, time).ifc.data]
             ELSE ifs,
     old |-> old,
     raised |-> datagramReceived(old, addr, payload, time).raised]

\* datagramReceived of a protocol the interface no longer refers to: it
\* works on the store it holds itself, and the dictionary is not involved.
Late(ifs, name, old, addr, payload, time) ==
    [ifs |-> ifs,
     old |-> datagramReceived(old, addr, payload, time).ifc,
     raised |-> datagramReceived(old, addr, payload, time).raised]

LateReceived(name, addr, payload, r) ==
    /\ interfaces' = r.ifs
    /\ last' = [op |-> "late_datagram", name |-> name, addr |-> addr,
                payload |-> payload, raised |-> r.raised,
                recorded |-> addr \in DOMAIN r.old.data.rp]

\* A datagram that was on its way when a scan tore the interface down is
\* handed to the protocol of the closed port.  Whether a reactor still does
\* so after stopListening() is its own affair; the model allows it.
LateDatagram(name, senders, payloads) ==
    /\ pc = "running"
    /\ Orphaned(name)
    /\ \E addr \in senders, payload \in payloads :
         LateReceived(name, addr, payload,
                      Late(interfaces, name, last.ev[name].old, addr, payload, now))
    /\ UNCHANGED <<WINDOW, INTERVAL, PROBE_DEBUG, pc, scanTimer, sendTimers, now, budget>>

\* Line 92 of send_probe: the link address netifaces reports for the interface.
LinkAddr(name) == IF name = "wlan0" THEN "m1" ELSE "m2"

\* Lines 97 and 70: what pickle.loads returns for the datagram send_probe
\* pickled, the pair of the link address and the snapshot.
Pickled(name, datagram) ==
    [pair |-> TRUE, mac |-> LinkAddr(name), data |-> [dict |-> TRUE, d |-> datagram]]

\* The probe interface a has just broadcast reaches the protocol of interface
\* b, with the local address of a as its sender.  A broadcast no such step
\* follows is lost.
ProbeDelivered(a, b) ==
    /\ pc = "running"
    /\ a # b
    /\ last.op = "send_probe" /\ last.name = a /\ last.sent
    /\ hasattr(interfaces[b], "port") /\ hasattr(interfaces[b], "protocol")
    /\ budget.rx > 0
    /\ Received(b, interfaces[a].own_ip, Pickled(a, last.datagram),
                datagramReceived(interfaces[b], interfaces[a].own_ip,
                                 Pickled(a, last.datagram), now))
    /\ budget' = [budget EXCEPT !.rx = @ - 1]
    /\ UNCHANGED <<WINDOW, INTERVAL, PROBE_DEBUG, pc, scanTimer, sendTimers, now>>

\* The timestamps a store holds, for the record of an eviction.
RECURSIVE NumTimestamps(_, _)
NumTimestamps(rp, keys) ==
    IF keys = {} THEN 0
    ELSE LET n == CHOOSE x \in keys : TRUE
         IN  Len(rp[n]) + NumTimestamps(rp, keys \ {n})

Evicted(name, st) ==
    /\ interfaces' = [interfaces EXCEPT ![name].data = st]
    /\ last' = [op |-> "remove_old_probes", name |-> name, time |-> now,
                dropped |-> NumTimestamps(interfaces[name].data.rp,
                                          DOMAIN interfaces[name].data.rp)
                            - NumTimestamps(st.rp, DOMAIN st.rp)]

\* remove_old_probes() as the readers of a store call it before they read:
\* the timestamp defaults to time.time().
EvictStale(name) ==
    /\ pc = "running"
    /\ hasattr(interfaces[name], "data")
    /\ Evicted(name, remove_old_probes(interfaces[name].data, now))
    /\ UNCHANGED <<WINDOW, INTERVAL, PROBE_DEBUG, pc, scanTimer, sendTimers, now, budget>>

\* time.time() advances.
Tick(max) ==
    /\ now < max
    /\ now' = now + 1
    /\ last' = [op |-> "tick"]
    /\ UNCHANGED <<WINDOW, INTERVAL, PROBE_DEBUG, pc, interfaces, scanTimer, sendTimers, budget>>

(***************************************************************************)
(* EtxIpcProtocol: one request line of a connection to the query server.   *)
(* A request is the list of words of the line (str.split); a response is   *)
(* the set of lines sent.  closed tells how the connection ends:           *)
(* "loseConnection" when line 200 is reached, "connectionLost" when an     *)
(* exception leaves lineReceived and the reactor drops the connection,     *)
(* "open" when lineReceived returns without closing.                       *)
(***************************************************************************)
Requests ==
    {<<>>, <<"neighbors">>, <<"NEIGHBORS", "wlan0">>, <<"NEIGHBORS", "wlan1">>,
     <<"NEIGHBORS", "eth9">>, <<"MAC">>, <<"CHAFT">>, <<"chaft", "0.5">>,
     <<"CHAFT", "2">>, <<"CHAFT", "x">>, <<"QUALITY">>, <<"QUALITY", "ip2">>,
     <<"ETX">>, <<"etx", "ip2">>, <<"HELP">>}

\* str.upper on the words of Requests.
upper(word) ==
    CASE word = "neighbors" -> "NEIGHBORS"
      [] word = "chaft" -> "CHAFT"
      [] word = "etx" -> "ETX"
      [] OTHER -> word

\* float(word): the words that parse, and their values.
IsFloat(word) == word \in {"0.5", "2"}

float(word) == IF word = "0.5" THEN <<1, 2>> ELSE <<2, 1>>

ERR_SYNTAX == "INVALID SYNTAX"

\* Lines 142-146: the minimum quality of CHAFT.
MinProb(hasarg, arg) ==
    IF hasarg /\ RatLe(Zero, float(arg)) /\ RatLe(float(arg), One)
    THEN float(arg)
    ELSE Zero

\* The lines one command sends for the evicted store st of interface name.
ResponseLines(cmd, arg, min_prob, name, st) ==
    CASE cmd = "NEIGHBORS" ->
            {<<name, n, get_neighbors(st, FALSE)[n]>> : n \in DOMAIN get_neighbors(st, FALSE)}
      [] cmd = "MAC" ->
            {<<name, get_mac(st, n), get_neighbors(st, FALSE)[n]>> :
                n \in {x \in DOMAIN get_neighbors(st, FALSE) : get_mac(st, x) # ""}}
      [] cmd = "CHAFT" ->
            {<<n, "channel">> :
                n \in {x \in DOMAIN get_neighbors(st, FALSE) :
                          RatLe(min_prob, get_neighbors(st, FALSE)[x])}}
      [] cmd = "QUALITY" ->
            {<<n, get_transmission_probability(st, n)>> :
                n \in {arg} \cap DOMAIN get_neighbors(st, FALSE)}
      [] cmd = "ETX" ->
            {<<n, get_etx(st, n)>> : n \in {arg} \cap DOMAIN get_neighbors(st, FALSE)}

\* One interface of a command's loop, evicted to st: get_neighbors raises on
\* a stored table that is no mapping.
Served(acc, name, cmd, arg, min_prob, st) ==
    [ifs |-> [acc.ifs EXCEPT ![name].data = st],
     lines |-> IF Raises_read(st) THEN acc.lines
               ELSE acc.lines \cup ResponseLines(cmd, arg, min_prob, name, st),
     raised |-> Raises_read(st)]

\* Serve reading the store as it is, without remove_old_probes().
ServeUnevicted(acc, name, cmd, arg, min_prob, time) ==
    IF acc.raised \/ ~hasattr(acc.ifs[name], "data")
    THEN acc
    ELSE Served(acc, name, cmd, arg, min_prob, acc.ifs[name].data)

Serve(acc, name, cmd, arg, min_prob, time) ==
    IF acc.raised \/ ~hasattr(acc.ifs[name], "data")
    THEN acc
    ELSE Served(acc, name, cmd, arg, min_prob,
                remove_old_probes(acc.ifs[name].data, time))

\* The loop over interfaces.values().
RECURSIVE ServeFrom(_, _, _, _, _, _)
ServeFrom(k, acc, cmd, arg, min_prob, time) ==
    IF k > Len(IfOrder) THEN acc
    ELSE ServeFrom(k + 1, Serve(acc, IfOrder[k], cmd, arg, min_prob, time),
                   cmd, arg, min_prob, time)

NoLines(ifs) == [ifs |-> ifs, lines |-> {}, raised |-> FALSE]

\* The end of lineReceived.
Reply(ifs, lines, raised, closed) ==
    [ifs |-> ifs, lines |-> lines, raised |-> raised, closed |-> closed]

Closing(acc) ==
    Reply(acc.ifs, acc.lines, acc.raised,
          IF acc.raised THEN "connectionLost" ELSE "loseConnection")

\* Lines 98-200 for the command cmd with the argument arg, if any.
Dispatch(ifs, cmd, arg, hasarg, time) ==
    IF cmd = "NEIGHBORS" /\ hasarg
    THEN IF arg \notin IfNames THEN Reply(ifs, {}, FALSE, "loseConnection")
         ELSE IF ~hasattr(ifs[arg], "data") THEN Reply(ifs, {}, FALSE, "open")
         ELSE Closing(Serve(NoLines(ifs), arg, cmd, arg, Zero, time))
    ELSE IF cmd \in {"NEIGHBORS", "MAC"}
    THEN Closing(ServeFrom(1, NoLines(ifs), cmd, arg, Zero, time))
    ELSE IF cmd = "CHAFT"
    THEN IF hasarg /\ ~IsFloat(arg) THEN Reply(ifs, {}, TRUE, "connectionLost")
         ELSE Closing(ServeFrom(1, NoLines(ifs), cmd, arg, MinProb(hasarg, arg), time))
    ELSE IF cmd \in {"QUALITY", "ETX"}
    THEN IF ~hasarg THEN Reply(ifs, {<<ERR_SYNTAX>>}, FALSE, "loseConnection")
         ELSE Closing(ServeFrom(1, NoLines(ifs), cmd, arg, Zero, time))
    ELSE Reply(ifs, {<<ERR_SYNTAX>>}, FALSE, "loseConnection")

\* lineReceived: lines 92-96 split the line and fold the command's case.
lineReceived(ifs, request, time) ==
    Dispatch(ifs,
             IF request = <<>> THEN "" ELSE upper(request[1]),
             IF Len(request) > 1 THEN request[2] ELSE "",
             Len(request) > 1, time)

\* The timestamps the stores of the interfaces hold, from the k-th on.
RECURSIVE TimestampsFrom(_, _)
TimestampsFrom(k, ifs) ==
    IF k > Len(IfOrder) THEN 0
    ELSE NumTimestamps(ifs[IfOrder[k]].data.rp, DOMAIN ifs[IfOrder[k]].data.rp)
         + TimestampsFrom(k + 1, ifs)

LineHandled(request, r) ==
    /\ interfaces' = r.ifs
    /\ last' = [op |-> "lineReceived", request |-> request, lines |-> r.lines,
                raised |-> r.raised, closed |-> r.closed, time |-> now,
                dropped |-> TimestampsFrom(1, interfaces) - TimestampsFrom(1, r.ifs)]

\* A request line arrives on a connection to the query server.
LineArrives(requests) ==
    /\ pc = "running"
    /\ \E request \in requests : LineHandled(request, lineReceived(interfaces, request, now))
    /\ UNCHANGED <<WINDOW, INTERVAL, PROBE_DEBUG, pc, scanTimer, sendTimers, now, budget>>

(***************************************************************************)
(* EtxWebServer: one GET request to the snapshot server.                   *)
(***************************************************************************)
\* Lines 70-89 of render_GET: the loop is that of the MAC command of the
\* query server, with the entries collected for the response instead of
\* sent line by line.
render_GET(ifs, time) ==
    ServeFrom(1, NoLines(ifs), "MAC", "", Zero, time)

Rendered(r) ==
    /\ interfaces' = r.ifs
    /\ last' = [op |-> "render_GET", lines |-> r.lines, raised |-> r.raised,
                time |-> now,
                dropped |-> TimestampsFrom(1, interfaces) - TimestampsFrom(1, r.ifs)]

\* A GET request arrives at the snapshot server.
GetArrives ==
    /\ pc = "running"
    /\ Rendered(render_GET(interfaces, now))
    /\ UNCHANGED <<WINDOW, INTERVAL, PROBE_DEBUG, pc, scanTimer, sendTimers, now, budget>>

(***************************************************************************)
(* The daemon: started from its parsed configuration, it scans its         *)
(* interfaces, sends on its timers and receives datagrams.                 *)
(***************************************************************************)
DaemonPayloads == Payloads({"m1"}, Tables({}, {}, {}))

Init ==
    /\ \E c \in DaemonConfigs : WINDOW = c[1] /\ INTERVAL = c[2] /\ PROBE_DEBUG = c[3]
    /\ pc = "configured"
    /\ interfaces = [n \in IfNames |-> Interface]
    /\ scanTimer = FALSE
    /\ sendTimers = [n \in IfNames |-> NoTimers]
    /\ now = 0
    /\ budget = [scans |-> MaxScans, rx |-> MaxRx]
    /\ last = [op |-> "init"]

Next ==
    \/ Startup
    \/ initialize_interfaces
    \/ \E name \in IfNames, stale \in BOOLEAN : SendTimerFires(name, stale)
    \/ \E name \in IfNames : DatagramArrives(name, {"ip3"}, DaemonPayloads)
    \/ \E name \in IfNames : LateDatagram(name, {"ip3"}, DaemonPayloads)
    \/ Tick(MaxClock)

Spec == Init /\ [][Next]_vars

(***************************************************************************)
(* The store of one ACTIVE interface: wlan0 was activated by the first     *)
(* scan, with local address ip1; datagrams arrive, probes are sent and     *)
(* readers evict before they read.                                         *)
(***************************************************************************)
StorePayloads == Payloads(Mac, Tables({"ip1"}, ReportedCounts, {0}))

InitStore ==
    /\ \E c \in StoreConfigs : WINDOW = c[1] /\ INTERVAL = c[2] /\ PROBE_DEBUG = c[3]
    /\ pc = "running"
    /\ interfaces = [n \in IfNames |->
            IF n = "wlan0"
            THEN [attrs |-> Attrs, port |-> "b1", ipc_port |-> "ip1", own_ip |-> "ip1",
                  data |-> EtxData("ip1")]
            ELSE Interface]
    /\ scanTimer = TRUE
    /\ sendTimers = [n \in IfNames |->
            IF n = "wlan0" THEN [fresh |-> 1, stale |-> 0] ELSE NoTimers]
    /\ now = 0
    /\ budget = [scans |-> 0, rx |-> MaxProbes]
    /\ last = [op |-> "init"]

NextStore ==
    \/ DatagramArrives("wlan0", Ip, StorePayloads)
    \/ EvictStale("wlan0")
    \/ SendTimerFires("wlan0", FALSE)
    \/ Tick(MaxTime)

SpecStore == InitStore /\ [][NextStore]_vars

(***************************************************************************)
(* The query server over one listening interface, wlan0, and one interface *)
(* that is not configured, wlan1.                                          *)
(***************************************************************************)
InitIpc ==
    /\ \E c \in StoreConfigs : WINDOW = c[1] /\ INTERVAL = c[2] /\ PROBE_DEBUG = c[3]
    /\ pc = "running"
    /\ interfaces = [n \in IfNames |->
            IF n = "wlan0"
            THEN [attrs |-> Attrs, port |-> "b1", ipc_port |-> "ip1", own_ip |-> "ip1",
                  data |-> EtxData("ip1")]
            ELSE Interface]
    /\ scanTimer = TRUE
    /\ sendTimers = [n \in IfNames |->
            IF n = "wlan0" THEN [fresh |-> 1, stale |-> 0] ELSE NoTimers]
    /\ now = 0
    /\ budget = [scans |-> 0, rx |-> MaxRx]
    /\ last = [op |-> "init"]

NextIpc ==
    \/ DatagramArrives("wlan0", {"ip2"}, StorePayloads)
    \/ LineArrives(Requests)
    \/ GetArrives
    \/ Tick(MaxTime)

SpecIpc == InitIpc /\ [][NextIpc]_vars

(***************************************************************************)
(* Two nodes that hear each other.  Each runs its own daemon with one      *)
(* listening interface; the two interface objects are kept in the two      *)
(* entries of interfaces: wlan0 is the interface of the node with address  *)
(* ip1, wlan1 that of the node with address ip2.                           *)
(***************************************************************************)
NodeIp(name) == IF name = "wlan0" THEN "ip1" ELSE "ip2"

InitPair ==
    /\ \E c \in StoreConfigs : WINDOW = c[1] /\ INTERVAL = c[2] /\ PROBE_DEBUG = c[3]
    /\ pc = "running"
    /\ interfaces = [n \in IfNames |->
            [attrs |-> Attrs, port |-> "b1", ipc_port |-> NodeIp(n),
             own_ip |-> NodeIp(n), data |-> EtxData(NodeIp(n))]]
    /\ scanTimer = TRUE
    /\ sendTimers = [n \in IfNames |-> [fresh |-> 1, stale |-> 0]]
    /\ now = 0
    /\ budget = [scans |-> 0, rx |-> MaxExchange]
    /\ last = [op |-> "init"]

NextPair ==
    \/ \E name \in IfNames : SendTimerFires(name, FALSE)
    \/ \E a, b \in IfNames : ProbeDelivered(a, b)
    \/ Tick(MaxTime)

SpecPair == InitPair /\ [][NextPair]_vars

(***************************************************************************)
(* The daemon from its command line: the values of -i and -w are parsed    *)
(* (lines 245-254), the configuration is checked, and the running daemon   *)
(* scans, receives and answers QUALITY and ETX requests, which compute the *)
(* ratios.                                                                 *)
(***************************************************************************)
\* The value of an option: not given, given with a string str.isdigit()
\* rejects ("x", "-1", "2.5"), or given with the digits of int.
OptionValues ==
    {[given |-> FALSE, isdigit |-> FALSE, int |-> 0],
     [given |-> TRUE, isdigit |-> FALSE, int |-> 0]}
    \cup {[given |-> TRUE, isdigit |-> TRUE, int |-> n] : n \in 0..MaxOption}

\* Lines 245-254: a value that is all digits and positive replaces the default.
Option(val, default) ==
    IF val.given /\ val.isdigit /\ val.int > 0 THEN val.int ELSE default

ConfigPayloads == Payloads({"m1"}, Tables(LocalIp, {1}, {0}))

ConfigRequests == {<<"QUALITY", "ip3">>, <<"ETX", "ip3">>}

InitConfig ==
    /\ \E i, w \in OptionValues : INTERVAL = Option(i, 1) /\ WINDOW = Option(w, 10)
    /\ PROBE_DEBUG = FALSE
    /\ pc = "configured"
    /\ interfaces = [n \in IfNames |-> Interface]
    /\ scanTimer = FALSE
    /\ sendTimers = [n \in IfNames |-> NoTimers]
    /\ now = 0
    /\ budget = [scans |-> MaxSetups, rx |-> MaxRx]
    /\ last = [op |-> "init"]

NextConfig ==
    \/ Startup
    \/ initialize_interfaces
    \/ \E name \in IfNames : DatagramArrives(name, {"ip3"}, ConfigPayloads)
    \/ LineArrives(ConfigRequests)
    \/ Tick(MaxClock)

SpecConfig == InitConfig /\ [][NextConfig]_vars

(***************************************************************************)
(* Properties of the lifecycle scan and its timers, under Spec.            *)
(***************************************************************************)
\* C1: a send_probe callback armed before its interface was torn down never
\* broadcasts a probe (and so never schedules itself again), also when the
\* interface was activated again in the same or a later scan.
C1_StaleTimerSilent ==
    (last.op = "send_probe" /\ last.stale) => ~last.sent

\* C2: the scan recurs for ever: while the daemon runs a call of
\* initialize_interfaces is scheduled, and every scan that ran reached every
\* configured interface.
C2_ScanRecurs ==
    /\ pc = "running" => scanTimer
    /\ last.op = "scan" => \A n \in IfNames : last.ev[n].seen # "skipped"

\* C3: after a scan that ran to its end and saw a listening interface absent,
\* or present without an address, the interface has no store, no protocol, no
\* probe port and no companion listener (and so no pending callback that
\* would send).
C3_LostInterfaceInactive ==
    (last.op = "scan" /\ ~last.raised) =>
        \A n \in IfNames :
            (last.ev[n].had_port /\ last.ev[n].seen \in {"absent", "noaddr"})
                => interfaces[n].attrs = {}

\* C4: an interface a scan activates, whether it was torn down in the same
\* scan (the broadcast address changed) or was inactive before, has an empty
\* store after the scan: no MAC entry, no two-hop table, no timestamp.
C4_ActivatedStoreEmpty ==
    last.op = "scan" =>
        \A n \in IfNames :
            last.ev[n].act = "ok" =>
                /\ hasattr(interfaces[n], "data")
                /\ interfaces[n].data = EtxData(interfaces[n].own_ip)

\* C4 witness: a scan tore down an interface whose store held probes and
\* activated it again.
C4_Witness ==
    /\ last.op = "scan"
    /\ \E n \in IfNames :
         last.ev[n].act = "ok" /\ last.ev[n].torn /\ last.ev[n].had_probes

\* C22 (as the code would have to satisfy it): an interface a scan activates
\* has its store, protocol and probe port whether or not the companion
\* listener could be bound, and every scan runs to its end and schedules the
\* next one.
C22_IpcBindContained ==
    last.op = "scan" =>
        /\ \A n \in IfNames :
              last.ev[n].act = "ok" =>
                  {"data", "protocol", "port"} \subseteq interfaces[n].attrs
        /\ ~last.raised
        /\ scanTimer

Parts(ifc) == ifc.attrs \cap {"data", "protocol", "port"}

\* C23 (as the code would have to satisfy it): between two callbacks every
\* interface has its store, its protocol and its probe port, or none of them.
C23_AllOrNothing ==
    \A n \in IfNames :
        Parts(interfaces[n]) \in {{}, {"data", "protocol", "port"}}

\* C24: a scan that finds a listening interface present with the broadcast
\* address it listens at leaves the interface as it is (store and contents,
\* protocol, ports) and the number of its pending send_probe callbacks.
C24_UnchangedKept ==
    [][last'.op = "scan" =>
         \A n \in IfNames :
             (/\ last'.ev[n].had_port
              /\ last'.ev[n].seen = "addr"
              /\ last'.ev[n].bcast = interfaces[n].port)
                 => /\ interfaces'[n] = interfaces[n]
                    /\ sendTimers'[n] = sendTimers[n]]_vars

\* C24 witness: a scan found a listening interface whose store held probes
\* with its broadcast address unchanged, and a callback is pending for it.
C24_Witness ==
    /\ last.op = "scan"
    /\ \E n \in IfNames :
          /\ last.ev[n].had_port /\ last.ev[n].seen = "addr"
          /\ last.ev[n].bcast = interfaces[n].port
          /\ ~last.ev[n].torn
          /\ last.ev[n].had_probes
          /\ DOMAIN interfaces[n].data.rp # {}
          /\ sendTimers[n].fresh = 1

\* C27: a datagram handed to the protocol of an interface after a scan tore
\* the interface down changes no interface of the dictionary: not its store,
\* if it was activated again, nor anything else.
C27_LateDatagramDropped ==
    [][last'.op = "late_datagram" =>
         \A n \in IfNames : interfaces'[n] = interfaces[n]]_vars

\* C27 witness: the scan tore the interface down and activated it again, the
\* old protocol recorded the late probe of a neighbor, and the new store of
\* the interface does not know the neighbor.
C27_Witness ==
    /\ last.op = "late_datagram" /\ ~last.raised /\ last.recorded
    /\ hasattr(interfaces[last.name], "data")
    /\ hasattr(interfaces[last.name], "port")
    /\ last.addr \notin DOMAIN interfaces[last.name].data.rp
    /\ last.addr \notin DOMAIN interfaces[last.name].data.mac

\* C25 (as the code would have to satisfy it): after a scan the store and the
\* protocol of every listening interface the scan saw with an address hold
\* the local address the scan saw.
C25_SelfAddressCurrent ==
    last.op = "scan" =>
        \A n \in IfNames :
            (hasattr(interfaces[n], "port") /\ last.ev[n].seen = "addr")
                => /\ interfaces[n].data.ip_address = last.ev[n].inet
                   /\ interfaces[n].own_ip = last.ev[n].inet

(***************************************************************************)
(* Properties of the store and the probe protocol, under SpecStore.        *)
(***************************************************************************)
Store == interfaces["wlan0"].data

\* The timestamps of s that are at most WINDOW old at time.
Live(s, time) == SelectSeq(s, LAMBDA t : t + WINDOW >= time)

\* C5: remove_old_probes(now) removes exactly the timestamps t with
\* t + WINDOW < now and keeps the others, a timestamp exactly WINDOW old
\* included, in their order.
C5_EvictExact ==
    [][last'.op = "remove_old_probes" =>
        \A n \in DOMAIN Store.rp :
            (IF n \in DOMAIN Store'.rp THEN Store'.rp[n] ELSE <<>>)
                = Live(Store.rp[n], last'.time)]_vars

\* C5 witness: an eviction dropped a timestamp and kept one exactly WINDOW old.
C5_Witness ==
    /\ last.op = "remove_old_probes" /\ last.dropped > 0
    /\ \E n \in DOMAIN Store.rp : \E k \in 1..Len(Store.rp[n]) :
         Store.rp[n][k] + WINDOW = last.time

\* C6: the stores always hold a two-hop table for exactly the neighbors they
\* hold timestamps for, and right after an eviction no list of timestamps is
\* empty.
C6_EvictedTogether ==
    \A name \in IfNames :
        /\ DOMAIN interfaces[name].data.np = DOMAIN interfaces[name].data.rp
        /\ last.op = "remove_old_probes" =>
              \A n \in DOMAIN interfaces[name].data.rp :
                  interfaces[name].data.rp[n] # <<>>

\* C6 witness: an eviction dropped the last timestamp of a neighbor, whose
\* MAC entry is all that is left of it.
C6_Witness ==
    /\ last.op = "remove_old_probes" /\ last.dropped > 0
    /\ DOMAIN Store.mac \ DOMAIN Store.rp # {}

WellFormed(payload) == payload.pair /\ payload.data.dict

\* C7: a datagram whose payload is no (mac, mapping) pair is dropped: the
\* store is as it was, and no later send_probe of the listening interface
\* fails.
C7_MalformedDropped ==
    [][/\ (last'.op = "datagramReceived" /\ ~WellFormed(last'.payload))
            => Store' = Store
       /\ (last'.op = "send_probe" /\ hasattr(interfaces["wlan0"], "port"))
            => ~last'.raised]_vars

InUnit(r) == RatLe(Zero, r) /\ RatLe(r, One)

\* C8: for every neighbor address whose table can be read, the forward ratio,
\* the reverse ratio and the transmission probability are within [0, 1], and a
\* count that reaches the expected number of probes gives the ratio 1.
C8_RatiosInUnit ==
    \A n \in Ip :
        ~Raises_recv_from_me(Store, n) =>
            /\ InUnit(_get_forward_ratio(Store, n))
            /\ InUnit(_get_reverse_ratio(Store, n))
            /\ InUnit(get_transmission_probability(Store, n))
            /\ _get_num_probes_recv_from_me(Store, n) >= _get_num_exp_probes
                  => RatEq(_get_forward_ratio(Store, n), One)
            /\ _get_num_probes_recv_from_neighbor(Store, n) >= _get_num_exp_probes
                  => RatEq(_get_reverse_ratio(Store, n), One)

\* C9: etx is the inverse of a positive probability, it is -1 exactly when the
\* probability is 0, and it is never 0 nor negative and different from -1.
C9_EtxInverse ==
    \A n \in Ip :
        ~Raises_recv_from_me(Store, n) =>
            LET p == get_transmission_probability(Store, n)
                e == get_etx(Store, n)
            IN  /\ RatLt(Zero, p) => RatEq(RatMul(e, p), One)
                /\ RatEq(e, MinusOne) <=> RatEq(p, Zero)
                /\ ~RatEq(e, Zero)
                /\ RatLt(e, Zero) => RatEq(e, MinusOne)

\* C10: of every store get_neighbors() and get_neighbors(etx=True) return
\* mappings with the same keys, the neighbors with timestamps whose
\* transmission probability is positive, and every ETX value is positive.
C10_NeighborsKeys ==
    /\ ~Raises_read(Store)
    /\ DOMAIN get_neighbors(Store, FALSE) = DOMAIN get_neighbors(Store, TRUE)
    /\ DOMAIN get_neighbors(Store, TRUE)
          = {n \in DOMAIN Store.rp : RatLt(Zero, get_transmission_probability(Store, n))}
    /\ \A n \in DOMAIN get_neighbors(Store, TRUE) :
          RatLt(Zero, get_neighbors(Store, TRUE)[n])

\* C13: a scan that finds an interface without probe port present with
\* addresses attempts its activation, and when listenUDP succeeds the
\* interface has, after the scan, a new empty store for the observed local
\* address, a protocol, a probe port at the observed broadcast address and a
\* send_probe callback armed.
C13_InactiveActivated ==
    last.op = "scan" =>
        \A n \in IfNames :
            (last.ev[n].seen = "addr" /\ ~last.ev[n].had_port) =>
                /\ last.ev[n].act \in {"ok", "bind_failed"}
                /\ last.ev[n].act = "ok" =>
                      /\ {"data", "protocol", "port"} \subseteq interfaces[n].attrs
                      /\ interfaces[n].data = EtxData(last.ev[n].inet)
                      /\ interfaces[n].own_ip = last.ev[n].inet
                      /\ interfaces[n].port = last.ev[n].bcast
                      /\ sendTimers[n].fresh >= 1

\* C13 witness: a scan activated an interface that had no probe port.
C13_Witness ==
    /\ last.op = "scan"
    /\ \E n \in IfNames :
         last.ev[n].seen = "addr" /\ ~last.ev[n].had_port /\ last.ev[n].act = "ok"

\* The interfaces after n in the iteration order of the scan.
After(n) == {IfOrder[k] : k \in {j \in 1..Len(IfOrder) : \E i \in 1..(j - 1) : IfOrder[i] = n}}

\* C14: an interface whose listenUDP failed in a scan has, after the scan, no
\* store, no protocol, no port and no callback armed by this scan; the scan
\* went on to the interfaces after it, and unless the scan raised elsewhere
\* the next scan is scheduled, which will attempt the activation again (C13).
C14_BindConflictContained ==
    last.op = "scan" =>
        \A n \in IfNames :
            last.ev[n].act = "bind_failed" =>
                /\ interfaces[n].attrs = {}
                /\ sendTimers[n].fresh = 0
                /\ \A m \in After(n) : last.ev[m].seen # "skipped"
                /\ ~last.raised => scanTimer

\* C14 witness: listenUDP failed for an interface in a scan that ran to its end.
C14_Witness ==
    /\ last.op = "scan" /\ ~last.raised
    /\ \E n \in IfNames : last.ev[n].act = "bind_failed" /\ After(n) # {}

\* C19: a process started with WINDOW < INTERVAL exits with status 1 and
\* never runs main(): no listener, no scan, no send_probe callback; started
\* with WINDOW >= INTERVAL it runs main(), and WINDOW and INTERVAL never change.
C19_ConfigChecked ==
    /\ [](/\ pc = "exited" =>
               /\ WINDOW < INTERVAL
               /\ ~scanTimer
               /\ \A n \in IfNames : interfaces[n].attrs = {} /\ sendTimers[n] = NoTimers
          /\ pc = "running" => WINDOW >= INTERVAL
          /\ last.op = "startup" =>
               (last.then = "sys.exit(1)" <=> pc = "exited"))
    /\ [][/\ WINDOW' = WINDOW /\ INTERVAL' = INTERVAL
          /\ pc = "exited" => pc' = "exited"
          /\ (pc = "configured" /\ pc' # pc) =>
                pc' = IF WINDOW < INTERVAL THEN "exited" ELSE "running"]_vars

\* C19 witness: the process exited on its configuration.
C19_Witness == pc = "exited" /\ last.op = "startup"

\* C20: no interface ever has more than one send_probe callback pending.
C20_OneSendTimer ==
    \A n \in IfNames : sendTimers[n].fresh + sendTimers[n].stale <= 1

\* The neighbor has no timestamps, or its table is a mapping without an entry
\* for the address of this node.
NoData(st, n) ==
    \/ n \notin DOMAIN st.rp
    \/ st.np[n].dict /\ st.ip_address \notin DOMAIN st.np[n].d

EvictionTimes == 0..(MaxTime + WINDOW + 1)

\* C12: in every store and for every reference time, a second
\* remove_old_probes at the same time changes nothing: timestamps, tables and
\* MAC entries are as the first call left them.
C12_EvictIdempotent ==
    \A t \in EvictionTimes :
        remove_old_probes(remove_old_probes(Store, t), t) = remove_old_probes(Store, t)

\* C12 witness: a store with two timestamps of one neighbor that an eviction
\* at the current time drops both.
C12_Witness ==
    \E n \in DOMAIN Store.rp :
        /\ Len(Store.rp[n]) = 2
        /\ n \notin DOMAIN remove_old_probes(Store, now).rp

\* The timestamps a receive at time t leaves of the list s it found: all of
\* them, or the live ones when the diagnostics of the protocol are on and
\* the receive ends with an eviction (lines 77-80).
Left(s, t) == IF PROBE_DEBUG THEN Live(s, t) ELSE s

TimestampsOf(st, n) == IF n \in DOMAIN st.rp THEN st.rp[n] ELSE <<>>

C16_EchoDiscarded ==
    [][(last'.op = "datagramReceived" /\ last'.addr = interfaces["wlan0"].own_ip)
          => Store' = Store]_vars

\* C16 witness: a well-formed datagram from the own address arrived at a store
\* that holds a neighbor.
C16_Witness ==
    /\ last.op = "datagramReceived" /\ last.addr = interfaces["wlan0"].own_ip
    /\ WellFormed(last.payload) /\ ~last.raised
    /\ DOMAIN Store.rp # {}

\* The count the table held for n reports for this node, 0 without an entry.
Reported(st, n) ==
    IF st.ip_address \in DOMAIN st.np[n].d THEN st.np[n].d[st.ip_address][1] ELSE 0

\* C17: the payload of every probe sent at time t maps exactly the neighbors
\* with a timestamp within WINDOW of t to the pair (number of those
\* timestamps, count the neighbor last reported for this node or 0).
C17_SnapshotLive ==
    [][(last'.op = "send_probe" /\ last'.sent)
       => LET st == interfaces[last'.name].data
              t == last'.time
              live == {n \in DOMAIN st.rp : Live(st.rp[n], t) # <<>>}
          IN  last'.datagram
                = [n \in live |-> <<Len(Live(st.rp[n], t)), Reported(st, n)>>]]_vars

\* C17 witness: a probe was sent that names a neighbor, from a store that has
\* the MAC entry of a neighbor evicted by then.
C17_Witness ==
    /\ last.op = "send_probe" /\ last.sent
    /\ DOMAIN last.datagram # {}
    /\ DOMAIN Store.mac \ DOMAIN Store.rp # {}

\* C21 (as the code would have to satisfy it): when a send_probe callback of
\* a listening interface has run, whatever happened during the send, another
\* callback is pending for the interface.
C21_SendRearmed ==
    (last.op = "send_probe" /\ hasattr(interfaces[last.name], "port"))
        => sendTimers[last.name].fresh + sendTimers[last.name].stale >= 1

\* C29: an eviction, alone or at the head of a send, leaves the answer of
\* get_mac for every address as it was; a recorded probe sets the answer for
\* its sender to the MAC it carried and leaves every other answer; and
\* get_mac answers None for an address no probe was recorded for.
C29_MacKept ==
    [][/\ last'.op \in {"remove_old_probes", "send_probe"}
            => \A n \in Ip : get_mac(Store', n) = get_mac(Store, n)
       /\ last'.op = "datagramReceived"
            => \A n \in Ip :
                  get_mac(Store', n) =
                     IF /\ n = last'.addr
                        /\ n # interfaces["wlan0"].own_ip
                        /\ last'.payload.pair
                     THEN last'.payload.mac
                     ELSE get_mac(Store, n)
       /\ \A n \in Ip \ DOMAIN Store'.mac : get_mac(Store', n) = ""]_vars

\* C29 witness: an eviction removed the last timestamp of a neighbor whose MAC
\* is still answered, while some other address was never recorded.
C29_Witness ==
    /\ last.op = "remove_old_probes" /\ last.dropped > 0
    /\ \E n \in Ip : /\ n \notin DOMAIN Store.rp
                     /\ get_mac(Store, n) \in Mac
    /\ \E m \in Ip \ {interfaces["wlan0"].own_ip} : get_mac(Store, m) = ""

NonDecreasing(s) == \A i, j \in 1..Len(s) : i <= j => s[i] <= s[j]

\* C30: in every store the timestamps of every neighbor are in non-decreasing
\* order.
C30_TimestampsOrdered ==
    \A name \in IfNames : \A n \in DOMAIN interfaces[name].data.rp :
        NonDecreasing(interfaces[name].data.rp[n])

\* C30 witness: a neighbor holds two timestamps of different times, the
\* earlier one first.
C30_Witness ==
    \E n \in DOMAIN Store.rp :
        /\ Len(Store.rp[n]) >= 2
        /\ Store.rp[n][1] < Store.rp[n][2]

(***************************************************************************)
(* Properties of the exchange of two nodes, under SpecPair.                *)
(***************************************************************************)
Clamped(c) == IF RatLt(One, <<c, _get_num_exp_probes>>) THEN One
              ELSE <<c, _get_num_exp_probes>>

\* The timestamps of sender from that the store st held within its window at
\* the given time.
Held(st, sender, time) == Live(TimestampsOf(st, sender), time)

\* C26: when node b records the probe node a has just built, the count b
\* reads for its forward ratio to a is the number of b's probes a held within
\* its window when it built the probe, the forward ratio is that count over
\* the expected number of probes, at most 1, and it is 0 when the snapshot of
\* a had no entry for b.
C26_ForwardCount ==
    [][(last'.op = "datagramReceived" /\ last.op = "send_probe") =>
         /\ _get_num_probes_recv_from_me(interfaces'[last'.name].data, last'.addr)
               = Len(Held(interfaces[last.name].data,
                          interfaces[last'.name].own_ip, last.time))
         /\ RatEq(_get_forward_ratio(interfaces'[last'.name].data, last'.addr),
                  Clamped(Len(Held(interfaces[last.name].data,
                                   interfaces[last'.name].own_ip, last.time))))
         /\ interfaces[last'.name].own_ip \notin DOMAIN last.datagram
               => RatEq(_get_forward_ratio(interfaces'[last'.name].data, last'.addr),
                        Zero)]_vars

\* C26 witness: a node has recorded a probe whose sender held more of its
\* probes than one window is expected to bring, and its forward ratio to the
\* sender is 1.
C26_Witness ==
    /\ last.op = "datagramReceived" /\ ~last.raised
    /\ _get_num_probes_recv_from_me(interfaces[last.name].data, last.addr)
          > _get_num_exp_probes
    /\ Len(TimestampsOf(interfaces[IF last.name = "wlan0" THEN "wlan1" ELSE "wlan0"].data,
                        interfaces[last.name].own_ip)) > _get_num_exp_probes
    /\ RatEq(_get_forward_ratio(interfaces[last.name].data, last.addr), One)

\* C26 second witness: a node has recorded a probe whose snapshot had no entry
\* for it.
C26_NoEntry ==
    /\ last.op = "datagramReceived" /\ ~last.raised
    /\ DOMAIN interfaces[last.name].data.np[last.addr].d = {}
    /\ now > 0

(***************************************************************************)
(* Properties of the query server, under SpecIpc.                          *)
(***************************************************************************)
\* C18: whatever the request line and the state of the interfaces, the
\* connection is closed once the line was handled.
C18_ConnectionClosed ==
    last.op = "lineReceived" => last.closed # "open"

\* The interface and neighbor a line of a response can stand for: a line of
\* three fields names its interface and the neighbor or the MAC of the
\* neighbor, a line of two fields names the neighbor.
Named(line, ifs) ==
    IF Len(line) = 3
    THEN IF line[2] \in Ip
         THEN {<<line[1], line[2]>>}
         ELSE {<<line[1], n>> : n \in {x \in Ip : get_mac(ifs[line[1]].data, x) = line[2]}}
    ELSE IF Len(line) = 2
    THEN {<<name, line[1]>> : name \in IfNames}
    ELSE {}

\* The store of interface name held a timestamp of neighbor n within the
\* window at the given time.
Fresh(ifs, name, n, time) ==
    hasattr(ifs[name], "data") /\ Held(ifs[name].data, n, time) # <<>>

\* C28: every line of a response of the query server, and every entry of a
\* response of the snapshot server, stands for a neighbor of which the store
\* of the interface held a timestamp within the window when the request was
\* served, and the store of an interface a line names was evicted for that
\* time.
C28_ResponsesEvicted ==
    [][last'.op \in {"lineReceived", "render_GET"} =>
         \A line \in last'.lines :
             /\ Len(line) > 1 =>
                   \E p \in Named(line, interfaces) :
                       Fresh(interfaces, p[1], p[2], last'.time)
             /\ Len(line) = 3 =>
                   interfaces'[line[1]].data
                       = remove_old_probes(interfaces[line[1]].data, last'.time)]_vars

\* C28 witness: the MAC command evicted the last timestamps of a neighbor
\* whose MAC the store knows, and sent no line.
C28_Witness ==
    /\ last.op = "lineReceived" /\ ~last.raised
    /\ last.request = <<"MAC">>
    /\ last.dropped > 0
    /\ last.lines = {}
    /\ DOMAIN Store.mac # {}

\* The same for a response of the snapshot server.
C28_WitnessGet ==
    /\ last.op = "render_GET" /\ ~last.raised
    /\ last.dropped > 0
    /\ last.lines = {}
    /\ DOMAIN Store.mac # {}

\* A response that names a neighbor, after time has passed.
C28_WitnessNamed ==
    /\ last.op \in {"lineReceived", "render_GET"}
    /\ \E line \in last.lines : Len(line) = 3
    /\ last.time > 0

(***************************************************************************)
(* Properties of the configuration, under SpecConfig.                      *)
(***************************************************************************)
\* C31: in the running daemon _get_num_exp_probes() is the quotient of WINDOW
\* by INTERVAL with the remainder discarded (3 for WINDOW 10 and INTERVAL 3)
\* and at least 1, so the ratios of every neighbor of every store are
\* fractions with a positive denominator.
C31_ExpectedCount ==
    pc = "running" =>
        /\ _get_num_exp_probes * INTERVAL <= WINDOW
        /\ WINDOW < (_get_num_exp_probes + 1) * INTERVAL
        /\ (WINDOW = 10 /\ INTERVAL = 3) => _get_num_exp_probes = 3
        /\ _get_num_exp_probes >= 1
        /\ \A name \in IfNames : \A n \in DOMAIN interfaces[name].data.rp :
              ~Raises_recv_from_me(interfaces[name].data, n) =>
                  /\ _get_forward_ratio(interfaces[name].data, n)[2] > 0
                  /\ _get_reverse_ratio(interfaces[name].data, n)[2] > 0

\* C31 witness: the daemon runs with the default WINDOW of 10 and -i 3, and a
\* QUALITY request was answered with the product of a forward ratio and a
\* reverse ratio of 1/3 each.
C31_Witness ==
    /\ pc = "running" /\ WINDOW = 10 /\ INTERVAL = 3
    /\ last.op = "lineReceived" /\ last.request = <<"QUALITY", "ip3">>
    /\ \E line \in last.lines : Len(line) = 2 /\ RatEq(line[2], <<1, 9>>)

\* A configuration the check of startup rejects: the quotient would be 0.
C31_Rejected ==
    /\ pc = "exited" /\ WINDOW < INTERVAL
    /\ WINDOW \div INTERVAL = 0

====
